---- MODULE Spec2Model ----
(***************************************************************************)
(* TFST Carrier Portal, client side: the shipments page (shipments.js),    *)
(* the WebSocket client (websocket.js) and the dashboard (dashboard.js).   *)
(*                                                                         *)
(* The page is single-threaded: every action below is one callback run to  *)
(* completion (a DOM event handler, a socket.io event handler, an ajax     *)
(* completion callback or a timer).                                        *)
(***************************************************************************)
EXTENDS Integers, Sequences, FiniteSets, TLC

\* ------------------------------------------------------------------ bounds

\* Number of shipment ids the server may render / send events about.
NumShipments == 2

Ids == 1..NumShipments

\* ------------------------------------------------------------------ state

VARIABLES
    \* ---- shipments page: selection (shipments.js)
    hasDataTable,           \* $.fn.DataTable is loaded (setupDataTable's guard)
    allRows,                \* ids of the .shipment-row elements the server rendered
    rendered,               \* ids whose row is currently in the DOM
    boxChecked,             \* ids whose .shipment-checkbox has checked = true
    selectedShipments,      \* this.selectedShipments
    selectAllChecked,       \* $('#selectAll').prop('checked')
    selectAllIndeterminate, \* $('#selectAll').prop('indeterminate')
    bulkActionsPanel,       \* "template" | "shown" | "hidden"
    selectedCount,          \* $('#selectedCount').text(): -1 is the template's text
    preRefresh              \* history: selectedShipments when refreshData was called

selVars == <<hasDataTable, allRows, rendered, boxChecked, selectedShipments,
             selectAllChecked, selectAllIndeterminate, bulkActionsPanel,
             selectedCount, preRefresh>>

VARIABLES
    \* ---- WebSocket client: channel (websocket.js)
    hasStatusElement,       \* the page holds a #connectionStatus element
    connected,              \* this.connected
    reconnectAttempts,      \* this.reconnectAttempts
    connectionStatus,       \* what #connectionStatus shows: "template" | "connected"
                            \*   | "disconnected" | "error"
    chan,                   \* socket.io's state of this.socket: "connecting" | "open"
                            \*   | "reconnecting" | "reopened" | "failed"
    mgrAttempts,            \* socket.io's count of reconnection attempts started
    outbox,                 \* messages emitted on the socket in this connection epoch
    failures,               \* history: attempts failed since the channel was last open
    failedBefore,           \* history: failures that preceded the last 'connect'
    wanted                  \* history: ids subscribed and not unsubscribed since

chanVars == <<hasStatusElement, connected, reconnectAttempts, connectionStatus,
              chan, mgrAttempts, outbox, failures, failedBefore, wanted>>

VARIABLES
    \* ---- shipments page: rows, detail view, requests, notifications
    badge,                  \* per row id: text and class of its .status-badge
    flash,                  \* per row id: highlight classes and their pending timers
    detailFor,              \* id shown by #shipmentDetailModal, 0 when not visible
    detailStatus,           \* $('#currentStatus').text()
    detailUpdated,          \* $('#lastUpdated').text()
    pending,                \* ids with an update-status request in flight
    body,                   \* notifications and modals appended to <body>, in order
    alertTimers             \* pending 5000 ms timers set by showNotification

recVars == <<badge, flash, detailFor, detailStatus, detailUpdated, pending,
             body, alertTimers>>

VARIABLES
    \* ---- locations (websocket.js, shipments.js)
    locationDisplay,        \* per id: what its .location-display element shows
    markers                 \* this.markers of TFSTShipments, per id

locVars == <<locationDisplay, markers>>

VARIABLES
    \* ---- sessions and the server's subscription registry
    sessConnected,          \* per session: this.connected of its TFSTWebSocket
    wire,                   \* per session: messages emitted, not yet received
    registry,               \* the server's registry: pairs <<session, shipment id>>
    asked                   \* history, per session: now, the ids it asked to
                            \*   subscribe to and has not asked to unsubscribe
                            \*   from since; lost, while it is disconnected,
                            \*   those the disconnect ended

regVars == <<sessConnected, wire, registry, asked>>

VARIABLES
    \* ---- time
    elapsed                 \* seconds since the ping interval was set or last fired

timeVars == <<elapsed>>

VARIABLES
    \* ---- debounce (shipments.js)
    wait,                   \* debounce's wait, in ticks
    timeout,                \* the closure's `timeout`: the id of the timer set
                            \*   last, 0 while undefined
    timers,                 \* the pending timers, oldest first: id, the args of
                            \*   the call that set it, ticks since it was set
    calls,                  \* calls of the returned function so far
    invoked,                \* func's invocations so far: how many, and the args
                            \*   of the last
    burst                   \* history: bursts, the calls made while no timer
                            \*   was pending; lastArgs and sinceCall, the args
                            \*   of the most recent call and the ticks since

debVars == <<wait, timeout, timers, calls, invoked, burst>>

VARIABLES
    \* ---- history, kept by the specifications around the handlers
    lastOp,                 \* the last operation run on the page
    maxTs,                  \* per id, the latest timestamp applied since load
    lastEv,                 \* the event last applied to the present view
    repeat,                 \* the last step applied lastEv a second time
    noteIds,                \* per element of body: the serial of the notification
                            \*   showNotification appended, 0 for other elements
    timerIds                \* per pending 5000 ms timer, oldest first: the serial
                            \*   of the notification whose showNotification set it

noteVars == <<noteIds, timerIds>>

histVars == <<maxTs, lastEv, repeat, noteVars>>

VARIABLES
    \* ---- history of the client's public methods
    lastCall,               \* the message the method called in the last step was
                            \*   to emit; NoCall when the step was no such call
    dropped                 \* such a call has been made while this.connected
                            \*   was false

callVars == <<lastCall, dropped>>

VARIABLES
    \* ---- the server's last shipment_update on its way to the page's sockets
    emitted                 \* the event; ws, sh: it has yet to reach the socket
                            \*   of TFSTWebSocket, of TFSTShipments; history:
                            \*   notified, highlighted count the notifications
                            \*   and row highlights its listeners made

fanVars == <<emitted>>

VARIABLES
    \* ---- dashboard (dashboard.js)
    kpiIssued,              \* GET /dashboard/api/kpis requests issued since load
    kpiInFlight,            \* those of them not answered yet, by serial
    kpiCards,               \* the snapshot the KPI cards show: the serial of the
                            \*   request it answered, 0 for the template's values
    chartData,              \* the snapshot the charts show, likewise
    kpiTimers,              \* pending 2000 ms timers set by handleRealtimeUpdate
    loading,                \* .loading-overlay elements in <body>
    loadingTimers,          \* pending 3000 ms timers set by showLoading
    recentInFlight,         \* GET /api/v1/shipments requests not answered yet
    kpiNewest               \* history: the latest-issued request among those
                            \*   answered with a snapshot, 0 when none was

dashVars == <<kpiIssued, kpiInFlight, kpiCards, chartData, kpiTimers, loading,
              loadingTimers, recentInFlight, kpiNewest>>

vars == <<debVars, dashVars, fanVars, callVars, selVars, chanVars, recVars, locVars, regVars, timeVars, lastOp, histVars>>

\* ------------------------------------------------- shipments page: selection

\* TFSTShipments.constructor on a freshly loaded page whose table holds `rows`:
\* the set starts empty, the template's checkboxes are unchecked.
PageLoad(rows) ==
    /\ allRows' = rows
    /\ rendered' = rows
    /\ boxChecked' = {}
    /\ selectedShipments' = {}
    /\ selectAllChecked' = FALSE
    /\ selectAllIndeterminate' = FALSE
    /\ bulkActionsPanel' = "template"
    /\ selectedCount' = -1

SelInit ==
    /\ hasDataTable \in BOOLEAN
    /\ allRows \in SUBSET Ids
    /\ rendered = allRows
    /\ boxChecked = {}
    /\ selectedShipments = {}
    /\ selectAllChecked = FALSE
    /\ selectAllIndeterminate = FALSE
    /\ bulkActionsPanel = "template"
    /\ selectedCount = -1
    /\ preRefresh = {}

\* An updateBulkActions that shows the panel and never hides it.
updateBulkActions_neverHides(sel) ==
    LET count == Cardinality(sel) IN
    /\ selectedCount' = count
    /\ bulkActionsPanel' = "shown"

\* updateBulkActions, given the selection it reads.
updateBulkActions(sel) ==
    LET count == Cardinality(sel) IN
    /\ selectedCount' = count
    /\ bulkActionsPanel' = IF count > 0 THEN "shown" ELSE "hidden"

\* The operator clicks the checkbox of a row in the DOM: the browser flips the
\* box, then the change handler runs.
handleShipmentSelect(shipmentId) ==
    LET checked == shipmentId \notin boxChecked
        boxes == IF checked THEN boxChecked \cup {shipmentId}
                            ELSE boxChecked \ {shipmentId}
        sel == IF checked THEN selectedShipments \cup {shipmentId}
                          ELSE selectedShipments \ {shipmentId}
        totalCheckboxes == Cardinality(rendered)
        checkedBoxes == Cardinality(boxes \cap rendered)
    IN  /\ shipmentId \in rendered
        /\ boxChecked' = boxes
        /\ selectedShipments' = sel
        /\ selectAllChecked' = (totalCheckboxes = checkedBoxes)
        /\ selectAllIndeterminate' =
               (checkedBoxes > 0 /\ checkedBoxes < totalCheckboxes)
        /\ updateBulkActions(sel)
        /\ lastOp' = "select"
        /\ UNCHANGED <<hasDataTable, allRows, rendered, preRefresh>>

\* A handleSelectAll that leaves the rows' checkboxes as they are.
handleSelectAll_boxesUntouched ==
    LET checked == ~selectAllChecked
        sel == IF checked THEN selectedShipments \cup rendered ELSE {}
    IN  /\ selectAllChecked' = checked
        /\ selectAllIndeterminate' = FALSE
        /\ boxChecked' = boxChecked
        /\ selectedShipments' = sel
        /\ updateBulkActions(sel)
        /\ lastOp' = "selectAll"
        /\ UNCHANGED <<hasDataTable, allRows, rendered, preRefresh>>

\* The operator clicks #selectAll: the browser flips it (and, as for every
\* user click on a checkbox, clears its indeterminate flag), then the change
\* handler runs over the checkboxes that are in the DOM.
handleSelectAll ==
    LET checked == ~selectAllChecked
        sel == IF checked THEN selectedShipments \cup rendered ELSE {}
    IN  /\ selectAllChecked' = checked
        /\ selectAllIndeterminate' = FALSE
        /\ boxChecked' = IF checked THEN boxChecked \cup rendered
                                    ELSE boxChecked \ rendered
        /\ selectedShipments' = sel
        /\ updateBulkActions(sel)
        /\ lastOp' = "selectAll"
        /\ UNCHANGED <<hasDataTable, allRows, rendered, preRefresh>>

\* refreshData: location.reload(). The page is rebuilt from the server's
\* current list of shipments and the constructor runs again.
refreshData ==
    /\ \E rows \in SUBSET Ids : PageLoad(rows)
    /\ preRefresh' = selectedShipments
    /\ lastOp' = "refresh"
    /\ UNCHANGED hasDataTable

\* A change of a .filter-select calls this.applyFilters(), which the class
\* does not define: the handler throws a TypeError and nothing changes.
applyFilters ==
    /\ lastOp' = "filter"
    /\ UNCHANGED <<hasDataTable, allRows, rendered, boxChecked, selectedShipments,
                   selectAllChecked, selectAllIndeterminate, bulkActionsPanel,
                   selectedCount, preRefresh>>

\* With the DataTables plugin the table set up by setupDataTable is redrawn on
\* every search, page change or sort: the rows of the draw are attached to the
\* DOM and all others detached (their checkbox elements keep their state).
dataTableDraw ==
    /\ hasDataTable
    /\ \E shown \in SUBSET allRows :
          /\ shown # rendered
          /\ rendered' = shown
    /\ lastOp' = "draw"
    /\ UNCHANGED <<hasDataTable, allRows, boxChecked, selectedShipments,
                   selectAllChecked, selectAllIndeterminate, bulkActionsPanel,
                   selectedCount, preRefresh>>

\* A page without a shipments table, for the specifications of other parts.
SelIdle ==
    /\ hasDataTable = FALSE
    /\ allRows = {}
    /\ rendered = {}
    /\ boxChecked = {}
    /\ selectedShipments = {}
    /\ selectAllChecked = FALSE
    /\ selectAllIndeterminate = FALSE
    /\ bulkActionsPanel = "template"
    /\ selectedCount = -1
    /\ preRefresh = {}

\* ------------------------------------------------ WebSocket client: channel

maxReconnectAttempts == 5

\* Most messages one connection epoch of the model emits.
MaxOutbox == 2

Msg(type, id) == [type |-> type, shipment_id |-> id]

NoCall == Msg("none", 0)

\* No public method has been called.
CallIdle == lastCall = NoCall /\ dropped = FALSE

\* TFSTWebSocket.constructor, then connect(): the socket starts connecting.
ChanInit ==
    /\ hasStatusElement \in BOOLEAN
    /\ connected = FALSE
    /\ reconnectAttempts = 0
    /\ connectionStatus = "template"
    /\ chan = "connecting"
    /\ mgrAttempts = 0
    /\ outbox = <<>>
    /\ failures = 0
    /\ failedBefore = 0
    /\ wanted = {}

\* A page whose WebSocket client is left out, for the other specifications.
ChanIdle ==
    /\ hasStatusElement = FALSE
    /\ connected = FALSE
    /\ reconnectAttempts = 0
    /\ connectionStatus = "template"
    /\ chan = "connecting"
    /\ mgrAttempts = 0
    /\ outbox = <<>>
    /\ failures = 0
    /\ failedBefore = 0
    /\ wanted = {}

\* updateConnectionStatus with its 'connected' case lost.
updateConnectionStatus_noConnected(status) ==
    IF hasStatusElement /\ status \in {"disconnected", "error"}
    THEN status
    ELSE connectionStatus

\* What #connectionStatus shows after updateConnectionStatus(status).
updateConnectionStatus(status) ==
    IF hasStatusElement /\ status \in {"connected", "disconnected", "error"}
    THEN status
    ELSE connectionStatus

\* socket 'connect': the server acknowledged the connection, on the first
\* connect and again after every successful reconnection.
onConnect ==
    /\ chan \in {"connecting", "reconnecting", "reopened"}
    /\ chan' = "open"
    /\ mgrAttempts' = 0
    /\ outbox' = <<>>
    /\ connected' = TRUE
    /\ reconnectAttempts' = 0
    /\ connectionStatus' = updateConnectionStatus("connected")
    /\ failedBefore' = IF chan = "reopened" THEN failedBefore ELSE failures
    /\ failures' = 0
    /\ UNCHANGED <<hasStatusElement, wanted>>

\* socket 'reconnect' (socket.io forwards the manager's event to the socket
\* in its 2.x line only): the transport is open again, the server's
\* acknowledgement ('connect') has not arrived yet.
onReconnect ==
    /\ chan = "reconnecting"
    /\ chan' = "reopened"
    /\ mgrAttempts' = 0
    /\ connectionStatus' = updateConnectionStatus("connected")
    /\ failedBefore' = failures
    /\ failures' = 0
    /\ UNCHANGED <<hasStatusElement, connected, reconnectAttempts, outbox,
                   wanted>>

\* socket 'disconnect' on transport loss; io({reconnection: true, ...}) then
\* schedules the first reconnection attempt.
onDisconnect ==
    /\ chan \in {"open", "reopened"}
    /\ chan' = "reconnecting"
    /\ mgrAttempts' = 1
    /\ connected' = FALSE
    /\ connectionStatus' = updateConnectionStatus("disconnected")
    /\ UNCHANGED <<hasStatusElement, reconnectAttempts, outbox, failures,
                   failedBefore, wanted>>

\* A connection attempt fails: socket 'connect_error' (and 'reconnect_error',
\* whose handler only logs). socket.io schedules the next attempt unless
\* reconnectionAttempts of them have been made, and then gives up.
onConnectError ==
    /\ chan \in {"connecting", "reconnecting"}
    /\ connectionStatus' = updateConnectionStatus("error")
    /\ failures' = failures + 1
    /\ IF chan = "reconnecting" /\ mgrAttempts >= maxReconnectAttempts
       THEN chan' = "failed" /\ mgrAttempts' = 0
       ELSE chan' = "reconnecting" /\ mgrAttempts' = mgrAttempts + 1
    /\ UNCHANGED <<hasStatusElement, connected, reconnectAttempts, outbox,
                   failedBefore, wanted>>

\* An emit without the guard: socket.io keeps a message emitted on a socket
\* that is not connected and sends it once the socket connects.
emitIfConnected_unguarded(type, id) ==
    /\ Len(outbox) < MaxOutbox
    /\ outbox' = Append(outbox, Msg(type, id))

\* this.socket.emit(type, {shipment_id}) behind the `if (this.connected)` guard.
emitIfConnected(type, id) ==
    IF connected
    THEN /\ Len(outbox) < MaxOutbox
         /\ outbox' = Append(outbox, Msg(type, id))
    ELSE outbox' = outbox

subscribeToShipment(shipmentId) ==
    /\ emitIfConnected("subscribe_shipment", shipmentId)
    /\ wanted' = IF connected THEN wanted \cup {shipmentId} ELSE wanted
    /\ UNCHANGED <<hasStatusElement, connected, reconnectAttempts,
                   connectionStatus, chan, mgrAttempts, failures, failedBefore>>

unsubscribeFromShipment(shipmentId) ==
    /\ emitIfConnected("unsubscribe_shipment", shipmentId)
    /\ wanted' = IF connected THEN wanted \ {shipmentId} ELSE wanted
    /\ UNCHANGED <<hasStatusElement, connected, reconnectAttempts,
                   connectionStatus, chan, mgrAttempts, failures, failedBefore>>

requestShipmentStatus(shipmentId) ==
    /\ emitIfConnected("request_shipment_status", shipmentId)
    /\ UNCHANGED <<hasStatusElement, connected, reconnectAttempts,
                   connectionStatus, chan, mgrAttempts, failures, failedBefore,
                   wanted>>

\* A ping() without its `if (this.connected)`.
ping_unguarded ==
    /\ Len(outbox) < MaxOutbox
    /\ outbox' = Append(outbox, Msg("ping", 0))
    /\ UNCHANGED <<hasStatusElement, connected, reconnectAttempts,
                   connectionStatus, chan, mgrAttempts, failures, failedBefore,
                   wanted>>

\* TFSTWebSocket.ping, which the interval set on document ready calls:
\* emit('ping') has no payload (shipment_id 0 in the model's messages).
ping ==
    /\ emitIfConnected("ping", 0)
    /\ UNCHANGED <<hasStatusElement, connected, reconnectAttempts,
                   connectionStatus, chan, mgrAttempts, failures, failedBefore,
                   wanted>>

\* setInterval(..., 30000): the period of the ping interval, in seconds.
pingInterval == 30

\* A second passes; the interval's callback is not yet due.
second ==
    /\ elapsed < pingInterval
    /\ elapsed' = elapsed + 1

\* The interval's callback comes due and runs: window.TFST_WebSocket.ping().
intervalTick ==
    /\ elapsed = pingInterval
    /\ elapsed' = 0
    /\ ping

TimeIdle == elapsed = 0

\* ------------------------- shipments page: rows, requests, notifications

\* Timestamps the server stamps shipment_update events with.
MaxTs == 3

\* Most notifications and modals the model keeps in <body> at once.
MaxBody == 2

\* Most highlight timers per row and kind the model keeps pending at once.
MaxTimers == 1

\* Most 5000 ms notification timers the model keeps pending at once.
MaxAlertTimers == 2

\* Status strings, as sequences of characters.
StatusList ==
    << <<"D", "o", "n", "e">>,
       <<"I", "n", " ", "T">>,
       <<"O", " ", "f", " ", "D">> >>

Statuses == {StatusList[i] : i \in 1..Len(StatusList)}

\* The status the server's event with timestamp ts carries.
StatusAt(ts) == StatusList[((ts - 1) % Len(StatusList)) + 1]

\* shipment_update events: {shipment_id, current_status}, with the timestamp
\* the server gave them.
Updates ==
    {[shipment_id |-> i, current_status |-> StatusAt(t), ts |-> t] :
        i \in Ids, t \in 1..MaxTs}

NoEv == [shipment_id |-> 0, current_status |-> <<>>, ts |-> 0]

\* What reading a property the event does not have gives.
Undefined == <<"undefined">>

\* shipment_update events that lack current_status.
Malformed ==
    {[shipment_id |-> i, current_status |-> Undefined, ts |-> 0] : i \in Ids}

Range(seq) == {seq[i] : i \in 1..Len(seq)}

\* String.prototype.toLowerCase, on the characters the statuses use.
toLowerCase(str) ==
    [i \in 1..Len(str) |->
        CASE str[i] = "D" -> "d"
          [] str[i] = "I" -> "i"
          [] str[i] = "T" -> "t"
          [] str[i] = "O" -> "o"
          [] OTHER -> str[i]]

\* String.prototype.replace(from, to) with a string pattern: the first
\* occurrence only.
replace(str, from, to) ==
    LET hits == {i \in 1..Len(str) : str[i] = from}
    IN  IF hits = {} THEN str
        ELSE LET first == CHOOSE i \in hits : \A j \in hits : i <= j
             IN  [i \in 1..Len(str) |-> IF i = first THEN to ELSE str[i]]

\* `badge status-badge status-${current_status.toLowerCase().replace(' ', '-')}`
StatusClass(current_status) ==
    <<"badge", "status-badge", "status-">>
        \o replace(toLowerCase(current_status), " ", "-")

\* What the server's template gave a row's badge and the detail fields: some
\* text and class that no event has written.
TemplateClass == <<"template">>
TemplateText == <<"template">>
TemplateBadge == [text |-> TemplateText, class |-> TemplateClass]
NoBadge == [text |-> <<>>, class |-> <<>>]
NoFlash == [info |-> FALSE, infoTimers |-> 0, warning |-> FALSE, warningTimers |-> 0]

\* A badge whose class is toggled instead of replaced.
BadgeAfter_toggleClass(b, data) ==
    [text |-> data.current_status,
     class |-> IF b.class = StatusClass(data.current_status)
               THEN <<"badge", "status-badge">>
               ELSE StatusClass(data.current_status)]

\* row.find('.status-badge') finds the badge: the server's template gives it
\* that class, and so does every class the handlers write.
Found(b) == b.class = TemplateClass \/ "status-badge" \in Range(b.class)

\* The row's callback throws a TypeError: undefined.toLowerCase().
Throws(data) == data.shipment_id \in rendered /\ data.current_status = Undefined

\* statusBadge.removeClass().addClass(...).text(data.current_status) on what
\* row.find('.status-badge') found. removeClass() has run when addClass's
\* argument is computed and throws.
BadgeAfter(b, data) ==
    IF ~Found(b) THEN b
    ELSE IF data.current_status = Undefined THEN [b EXCEPT !.class = <<>>]
    ELSE [text |-> data.current_status, class |-> StatusClass(data.current_status)]

\* Elements appended to <body>. A notification's msg is the template of its
\* text; id is the shipment an emergency modal is about.
Toast(type, msg) ==
    [kind |-> "toast", type |-> type, id |-> 0, msg |-> msg, content |-> TRUE]
Alert(type, msg) ==
    [kind |-> "alert", type |-> type, id |-> 0, msg |-> msg, content |-> TRUE]
Modal(id) ==
    [kind |-> "modal", type |-> "danger", id |-> id, msg |-> "alert_message",
     content |-> TRUE]

Remove(seq, i) == SubSeq(seq, 1, i - 1) \o SubSeq(seq, i + 1, Len(seq))

\* The rows, detail view and notifications of a freshly loaded page whose
\* table holds `rows`, each with the status the server rendered.
RecLoad(rows) ==
    /\ badge' = [i \in Ids |-> IF i \in rows THEN TemplateBadge ELSE NoBadge]
    /\ flash' = [i \in Ids |-> NoFlash]
    /\ detailFor' = 0
    /\ detailStatus' = TemplateText
    /\ detailUpdated' = "template"
    /\ pending' = {}
    /\ body' = <<>>
    /\ alertTimers' = 0

RecInit ==
    /\ hasDataTable = FALSE
    /\ allRows \in SUBSET Ids
    /\ rendered = allRows
    /\ boxChecked = {}
    /\ selectedShipments = {}
    /\ selectAllChecked = FALSE
    /\ selectAllIndeterminate = FALSE
    /\ bulkActionsPanel = "template"
    /\ selectedCount = -1
    /\ preRefresh = {}
    /\ badge = [i \in Ids |-> IF i \in allRows THEN TemplateBadge ELSE NoBadge]
    /\ flash = [i \in Ids |-> NoFlash]
    /\ detailFor = 0
    /\ detailStatus = TemplateText
    /\ detailUpdated = "template"
    /\ pending = {}
    /\ body = <<>>
    /\ alertTimers = 0

\* A page with no rows and nothing delivered, for the other specifications.
RecIdle ==
    /\ badge = [i \in Ids |-> NoBadge]
    /\ flash = [i \in Ids |-> NoFlash]
    /\ detailFor = 0
    /\ detailStatus = TemplateText
    /\ detailUpdated = "template"
    /\ pending = {}
    /\ body = <<>>
    /\ alertTimers = 0

\* An updateShipmentDisplay whose selector has lost its [data-shipment-id]
\* filter: every row in the DOM takes the event's status.
updateShipmentDisplay_allRows(data) ==
    LET id == data.shipment_id IN
    /\ \A i \in rendered : flash[i].infoTimers < MaxTimers
    /\ badge' = [i \in Ids |-> IF i \in rendered THEN BadgeAfter(badge[i], data)
                                                 ELSE badge[i]]
    /\ flash' = [i \in Ids |->
                    IF i \in rendered
                    THEN [flash[i] EXCEPT !.info = TRUE, !.infoTimers = @ + 1]
                    ELSE flash[i]]
    /\ IF detailFor # 0 /\ detailFor = id
       THEN /\ detailStatus' = data.current_status
            /\ detailUpdated' = "Just now"
       ELSE UNCHANGED <<detailStatus, detailUpdated>>

\* TFSTWebSocket.updateShipmentDisplay: the row's badge and highlight, then
\* the detail view if it is open on this shipment.
updateShipmentDisplay(data) ==
    LET id == data.shipment_id IN
    /\ IF id \in rendered
       THEN /\ badge' = [badge EXCEPT ![id] = BadgeAfter(@, data)]
            /\ IF Throws(data)
               THEN flash' = flash
               ELSE /\ flash[id].infoTimers < MaxTimers
                    /\ flash' = [flash EXCEPT ![id].info = TRUE,
                                              ![id].infoTimers = @ + 1]
       ELSE UNCHANGED <<badge, flash>>
    /\ IF ~Throws(data) /\ detailFor # 0 /\ detailFor = id
       THEN /\ detailStatus' = data.current_status
            /\ detailUpdated' = "Just now"
       ELSE UNCHANGED <<detailStatus, detailUpdated>>

\* TFSTWebSocket.showNotification: a toast appended to <body> and shown.
wsShowNotification(type, msg) ==
    /\ Len(body) < MaxBody
    /\ body' = Append(body, Toast(type, msg))

\* TFSTShipments.showNotification: an alert appended to <body>, and a 5000 ms
\* timer.
showNotification(type, msg) ==
    /\ Len(body) < MaxBody
    /\ alertTimers < MaxAlertTimers
    /\ body' = Append(body, Alert(type, msg))
    /\ alertTimers' = alertTimers + 1

\* TFSTWebSocket's 'shipment_update' listener: handleShipmentUpdate. No
\* component of the repository listens to the 'shipment:update' DOM event it
\* triggers first. Nothing catches what updateShipmentDisplay throws: the
\* handler ends there.
handleShipmentUpdate(data) ==
    /\ updateShipmentDisplay(data)
    /\ IF Throws(data)
       THEN body' = body
       ELSE wsShowNotification("info", "Shipment {id} updated: {status}")
    /\ UNCHANGED <<selVars, detailFor, pending, alertTimers>>

\* TFSTShipments' 'shipment_update' listener, on its own socket:
\* handleRealtimeUpdate.
handleRealtimeUpdate(data) ==
    LET id == data.shipment_id IN
    /\ IF id \in rendered
       THEN /\ badge' = [badge EXCEPT ![id] = BadgeAfter(@, data)]
            /\ IF Throws(data)
               THEN flash' = flash
               ELSE /\ flash[id].warningTimers < MaxTimers
                    /\ flash' = [flash EXCEPT ![id].warning = TRUE,
                                              ![id].warningTimers = @ + 1]
       ELSE UNCHANGED <<badge, flash>>
    /\ IF Throws(data)
       THEN UNCHANGED <<body, alertTimers>>
       ELSE showNotification("info", "{id} updated: {status}")
    /\ UNCHANGED <<selVars, detailFor, detailStatus, detailUpdated, pending>>

\* setTimeout(() => row.removeClass('table-info'), 2000) comes due.
infoTimer(id) ==
    /\ flash[id].infoTimers > 0
    /\ flash' = [flash EXCEPT ![id].info = FALSE, ![id].infoTimers = @ - 1]
    /\ UNCHANGED <<selVars, badge, detailFor, detailStatus, detailUpdated,
                   pending, body, alertTimers>>

\* setTimeout(() => row.removeClass('table-warning'), 3000) comes due.
warningTimer(id) ==
    /\ flash[id].warningTimers > 0
    /\ flash' = [flash EXCEPT ![id].warning = FALSE, ![id].warningTimers = @ - 1]
    /\ UNCHANGED <<selVars, badge, detailFor, detailStatus, detailUpdated,
                   pending, body, alertTimers>>

\* The elements of <body> that $('.alert') matches: the notifications of
\* TFSTShipments.showNotification and the .alert inside an emergency modal.
AlertIndexes == {i \in 1..Len(body) : body[i].kind \in {"alert", "modal"} /\ body[i].content}

\* setTimeout(() => $('.alert').last().alert('close'), 5000) comes due.
alertTimer ==
    /\ alertTimers > 0
    /\ alertTimers' = alertTimers - 1
    /\ IF AlertIndexes = {}
       THEN body' = body
       ELSE LET last == CHOOSE i \in AlertIndexes : \A j \in AlertIndexes : j <= i
            IN  IF body[last].kind = "alert"
                THEN body' = Remove(body, last)
                ELSE body' = [body EXCEPT ![last].content = FALSE]
    /\ UNCHANGED <<selVars, badge, flash, detailFor, detailStatus, detailUpdated,
                   pending>>

\* A toast hides (bootstrap's autohide, or its close button) and the
\* 'hidden.bs.toast' listener removes it; the operator closes an alert with
\* its close button.
dismissNotification(i) ==
    /\ i \in 1..Len(body)
    /\ body[i].kind \in {"toast", "alert"}
    /\ body' = Remove(body, i)
    /\ UNCHANGED <<selVars, badge, flash, detailFor, detailStatus, detailUpdated,
                   pending, alertTimers>>

\* The operator opens the detail view of a row (detailFor = 0: closes it).
showDetail(id) ==
    /\ id # detailFor
    /\ id = 0 \/ id \in rendered
    /\ detailFor' = id
    /\ IF id = 0
       THEN UNCHANGED <<detailStatus, detailUpdated>>
       ELSE detailStatus' = TemplateText /\ detailUpdated' = "template"
    /\ UNCHANGED <<selVars, badge, flash, pending, body, alertTimers>>

\* handleStatusUpdate -> updateShipmentStatus: the request is sent.
updateShipmentStatus(shipmentId) ==
    /\ shipmentId \in rendered
    /\ shipmentId \notin pending
    /\ pending' = pending \cup {shipmentId}
    /\ UNCHANGED <<selVars, badge, flash, detailFor, detailStatus, detailUpdated,
                   body, alertTimers>>

\* The request's success callback with response.success: a notification, then
\* refreshData reloads the page, which the server renders anew.
updateSucceeded(shipmentId) ==
    /\ shipmentId \in pending
    /\ \E rows \in SUBSET Ids : PageLoad(rows) /\ RecLoad(rows)
    /\ preRefresh' = selectedShipments
    /\ lastOp' = "refresh"
    /\ UNCHANGED hasDataTable

\* The error field of a failed request's answer (response.error, where
\* response is the success callback's argument or xhr.responseJSON || {}):
\* absent, the empty string, or the server's message.
ServerError == "Invalid status"

ErrorFields ==
    {[present |-> FALSE, text |-> ""],
     [present |-> TRUE, text |-> ""],
     [present |-> TRUE, text |-> ServerError]}

\* Failed requests: an HTTP 200 answer without response.success (http "ok"),
\* or an HTTP error status (http "error").
FailedResponses == {[http |-> h, error |-> e] : h \in {"ok", "error"}, e \in ErrorFields}

\* 'text' + value: an absent property reads undefined and prints so.
Concatenated(e) == IF e.present THEN e.text ELSE "undefined"

\* value || 'Server error': undefined and the empty string are falsy.
OrServerError(e) == IF e.present /\ e.text # "" THEN e.text ELSE "Server error"

\* The message updateShipmentStatus's callbacks build for a failed request.
FailureMessage(response) ==
    IF response.http = "ok"
    THEN "Failed to update status: " \o Concatenated(response.error)
    ELSE "Update failed: " \o OrServerError(response.error)

\* The request's success callback without response.success, or its error
\* callback: a notification, no refresh.
updateFailed(shipmentId, response) ==
    /\ shipmentId \in pending
    /\ pending' = pending \ {shipmentId}
    /\ showNotification("error", FailureMessage(response))
    /\ UNCHANGED <<selVars, badge, flash, detailFor, detailStatus, detailUpdated>>

\* emergency_alert events: {shipment_id, alert_message}.
EmergencyAlerts ==
    {[shipment_id |-> i, alert_message |-> "alert_message"] : i \in Ids}

IsModal(e) == e.kind = "modal"

\* A showEmergencyAlert that keeps one modal: it removes those open first.
showEmergencyAlert_single(data) ==
    LET others == SelectSeq(body, LAMBDA e : ~IsModal(e)) IN
    /\ Len(others) < MaxBody
    /\ body' = Append(others, Modal(data.shipment_id))

\* TFSTWebSocket.showEmergencyAlert: a modal appended to <body> and shown.
showEmergencyAlert(data) ==
    /\ Len(body) < MaxBody
    /\ body' = Append(body, Modal(data.shipment_id))

\* TFSTWebSocket's 'emergency_alert' listener: handleEmergencyAlert. No
\* component of the repository listens to the 'emergency:alert' DOM event it
\* triggers, and playAlertSound changes no state of the page.
handleEmergencyAlert(data) ==
    /\ showEmergencyAlert(data)
    /\ UNCHANGED <<selVars, badge, flash, detailFor, detailStatus, detailUpdated,
                   pending, alertTimers>>

\* The operator presses Acknowledge (data-bs-dismiss="modal") on a modal: it
\* hides and the 'hidden.bs.modal' listener removes it.
acknowledge(i) ==
    /\ i \in 1..Len(body)
    /\ body[i].kind = "modal"
    /\ body' = Remove(body, i)
    /\ UNCHANGED <<selVars, badge, flash, detailFor, detailStatus, detailUpdated,
                   pending, alertTimers>>

\* ------------------------------------------- one event, several listeners

NoEmit == [ev |-> NoEv, ws |-> FALSE, sh |-> FALSE, notified |-> 0, highlighted |-> 0]

\* Nothing on its way.
FanIdle == emitted = NoEmit

\* The server emits a shipment_update: it goes to every socket of the page,
\* the one TFSTWebSocket opened and the one TFSTShipments opened.
serverEmit(data) ==
    /\ ~emitted.ws /\ ~emitted.sh
    /\ emitted' = [ev |-> data, ws |-> TRUE, sh |-> TRUE,
                   notified |-> 0, highlighted |-> 0]

\* Highlight timers set on the row of shipment id so far undone or pending.
Highlights(f, id) == f[id].infoTimers + f[id].warningTimers

\* What a listener's run added for the event: notifications appended to
\* <body>, highlight timers set on the event's row.
Count(component) ==
    emitted' = [emitted EXCEPT
        ![component] = FALSE,
        !.notified = @ + Len(body') - Len(body),
        !.highlighted = @ + Highlights(flash', emitted.ev.shipment_id)
                          - Highlights(flash, emitted.ev.shipment_id)]

\* The event reaches TFSTWebSocket's socket: its 'shipment_update' listener.
deliverToWebSocket ==
    /\ emitted.ws
    /\ handleShipmentUpdate(emitted.ev)
    /\ Count("ws")

\* The event reaches TFSTShipments' socket: its 'shipment_update' listener.
deliverToShipments ==
    /\ emitted.sh
    /\ handleRealtimeUpdate(emitted.ev)
    /\ Count("sh")

\* ---------------------------------------------------------------- dashboard

\* KPI requests the model lets the dashboard issue after it loads, refreshes
\* by button it keeps pending at once, and 2000 ms timers likewise.
MaxRequests == 3
MaxRefresh == 1
MaxKpiTimers == 1

\* TFSTDashboard.constructor on a freshly loaded dashboard.
DashInit ==
    /\ kpiIssued = 0
    /\ kpiInFlight = {}
    /\ kpiCards = 0
    /\ chartData = 0
    /\ kpiTimers = 0
    /\ loading = 0
    /\ loadingTimers = 0
    /\ recentInFlight = 0
    /\ kpiNewest = 0

\* A page without the dashboard, for the other specifications.
DashIdle == DashInit

\* refreshKPIs: $.get('/dashboard/api/kpis') is sent. The server answers the
\* requests with its KPIs of the moment, so the answer to a request issued
\* later is the more recent snapshot.
refreshKPIs ==
    /\ kpiIssued < MaxRequests
    /\ kpiIssued' = kpiIssued + 1
    /\ kpiInFlight' = kpiInFlight \cup {kpiIssued + 1}

\* setupAutoRefresh: the 30000 ms interval comes due.
autoRefresh ==
    /\ refreshKPIs
    /\ UNCHANGED <<kpiCards, chartData, kpiTimers, loading, loadingTimers,
                   recentInFlight, body, alertTimers>>

\* The operator clicks #refreshDashboard: refreshData, that is showLoading
\* (an overlay and its 3000 ms timer), refreshKPIs and refreshRecentShipments.
dashboardRefreshData ==
    /\ loadingTimers < MaxRefresh
    /\ recentInFlight < MaxRefresh
    /\ loading' = loading + 1
    /\ loadingTimers' = loadingTimers + 1
    /\ refreshKPIs
    /\ recentInFlight' = recentInFlight + 1
    /\ UNCHANGED <<kpiCards, chartData, kpiTimers, body, alertTimers>>

\* setTimeout(() => $('.loading-overlay').remove(), 3000) comes due: every
\* overlay on the page goes.
loadingTimer ==
    /\ loadingTimers > 0
    /\ loadingTimers' = loadingTimers - 1
    /\ loading' = 0
    /\ UNCHANGED <<kpiIssued, kpiInFlight, kpiCards, chartData, kpiTimers,
                   recentInFlight, body, alertTimers>>

\* The shipments request is answered. Its done callback calls
\* this.updateRecentShipments, which the class does not define, and throws;
\* its fail callback logs. Either way the page stays as it is.
recentAnswered ==
    /\ recentInFlight > 0
    /\ recentInFlight' = recentInFlight - 1
    /\ UNCHANGED <<kpiIssued, kpiInFlight, kpiCards, chartData, kpiTimers,
                   loading, loadingTimers, body, alertTimers>>

\* The done callback of KPI request n: with data.success, updateKPICards and
\* updateCharts write the snapshot; without it nothing is written.
kpiDone(n, success) ==
    /\ n \in kpiInFlight
    /\ kpiInFlight' = kpiInFlight \ {n}
    /\ IF success
       THEN kpiCards' = n /\ chartData' = n
       ELSE UNCHANGED <<kpiCards, chartData>>
    /\ UNCHANGED <<kpiIssued, kpiTimers, loading, loadingTimers, recentInFlight,
                   body, alertTimers>>

\* The fail callback of KPI request n: a line on the console.
kpiFail(n) ==
    /\ n \in kpiInFlight
    /\ kpiInFlight' = kpiInFlight \ {n}
    /\ UNCHANGED <<kpiIssued, kpiCards, chartData, kpiTimers, loading,
                   loadingTimers, recentInFlight, body, alertTimers>>

\* TFSTDashboard's 'shipment_update' listener: handleRealtimeUpdate, a
\* notification (showNotification is that of TFSTShipments word for word but
\* for an icon) and a 2000 ms timer.
dashboardHandleRealtimeUpdate(data) ==
    /\ showNotification("info", "Shipment {id} updated: {status}")
    /\ kpiTimers < MaxKpiTimers
    /\ kpiTimers' = kpiTimers + 1
    /\ UNCHANGED <<kpiIssued, kpiInFlight, kpiCards, chartData, loading,
                   loadingTimers, recentInFlight>>

\* setTimeout(() => this.refreshKPIs(), 2000) comes due.
kpiTimer ==
    /\ kpiTimers > 0
    /\ kpiTimers' = kpiTimers - 1
    /\ refreshKPIs
    /\ UNCHANGED <<kpiCards, chartData, loading, loadingTimers, recentInFlight,
                   body, alertTimers>>

\* ----------------------------------------------------------------- debounce

\* Longest wait, in ticks, and most calls of the debounced function the model
\* makes.
MaxWait == 2
MaxCalls == 4

\* What the debounced function is called with.
Args == {"a", "b"}

NoArgs == "none"

\* debounce(func, wait) has returned executedFunction: `let timeout;`.
DebInit ==
    /\ wait \in 1..MaxWait
    /\ timeout = 0
    /\ timers = <<>>
    /\ calls = 0
    /\ invoked = [count |-> 0, args |-> NoArgs]
    /\ burst = [bursts |-> 0, lastArgs |-> NoArgs, sinceCall |-> 0]

\* No call of the debounced function, for the other specifications.
DebIdle ==
    /\ wait = 1
    /\ timeout = 0
    /\ timers = <<>>
    /\ calls = 0
    /\ invoked = [count |-> 0, args |-> NoArgs]
    /\ burst = [bursts |-> 0, lastArgs |-> NoArgs, sinceCall |-> 0]

\* clearTimeout(id) on the pending timers: a timer that has run, or an id
\* that is undefined, clears nothing.
clearTimeout(pendingTimers, id) ==
    SelectSeq(pendingTimers, LAMBDA t : t.id # id)

\* An executedFunction that sets its timer without clearing the one before.
executedFunction_noClear(args) ==
    /\ calls < MaxCalls
    /\ calls' = calls + 1
    /\ timers' = Append(timers, [id |-> calls + 1, args |-> args, age |-> 0])
    /\ timeout' = calls + 1
    /\ UNCHANGED <<wait, invoked>>

\* executedFunction(...args): clearTimeout(timeout), then
\* timeout = setTimeout(later, wait).
executedFunction(args) ==
    /\ calls < MaxCalls
    /\ calls' = calls + 1
    /\ timers' = Append(clearTimeout(timers, timeout),
                        [id |-> calls + 1, args |-> args, age |-> 0])
    /\ timeout' = calls + 1
    /\ UNCHANGED <<wait, invoked>>

\* func(...args) is invoked.
func(args) == invoked' = [count |-> invoked.count + 1, args |-> args]

\* The timer at position i has been pending for wait ticks or more and runs
\* its callback: later, that is clearTimeout(timeout), then func(...args).
later(i) ==
    /\ i \in 1..Len(timers)
    /\ timers[i].age >= wait
    /\ timers' = clearTimeout(Remove(timers, i), timeout)
    /\ func(timers[i].args)
    /\ UNCHANGED <<wait, timeout, calls>>

\* A tick passes. A timer may run late, never early; the model stops
\* counting a tick past wait.
tick ==
    /\ \E i \in 1..Len(timers) : timers[i].age <= wait
    /\ timers' = [i \in 1..Len(timers) |->
                     [timers[i] EXCEPT !.age = IF @ <= wait THEN @ + 1 ELSE @]]
    /\ UNCHANGED <<wait, timeout, calls, invoked>>

\* ---------------------------------------------------------------- locations

\* location_update events: {shipment_id, location: {lat, lng}}, coordinates
\* in units of 0.00001 degree. NoLocation is the location of an event that
\* lacks the property.
Locations == {[defined |-> TRUE, lat |-> 12, lng |-> 34],
              [defined |-> TRUE, lat |-> 18, lng |-> 34]}

NoLocation == [defined |-> FALSE, lat |-> 0, lng |-> 0]

LocationUpdates == {[shipment_id |-> i, location |-> l] : i \in Ids, l \in Locations}

MalformedLocations == {[shipment_id |-> i, location |-> NoLocation] : i \in Ids}

\* Number.prototype.toFixed(4) of a coordinate that is not negative: the
\* nearest multiple of 0.0001, in units of 0.0001.
toFixed4(x) == (x + 5) \div 10

\* A .location-display element: absent, as the template rendered it, or as
\* updateLocationDisplay wrote it.
NoDisplay == [present |-> FALSE, updated |-> FALSE, lat |-> 0, lng |-> 0]
TemplateDisplay == [present |-> TRUE, updated |-> FALSE, lat |-> 0, lng |-> 0]
NoMarker == [exists |-> FALSE, lat |-> 0, lng |-> 0]

\* A page with .location-display elements for some shipments; the
\* constructor's this.markers = {}.
LocInit ==
    /\ locationDisplay \in [Ids -> {NoDisplay, TemplateDisplay}]
    /\ markers = [i \in Ids |-> NoMarker]

\* A page without location displays, for the other specifications.
LocIdle ==
    /\ locationDisplay = [i \in Ids |-> NoDisplay]
    /\ markers = [i \in Ids |-> NoMarker]

\* TFSTWebSocket.updateLocationDisplay: the html of the shipment's
\* .location-display elements. Without data.location the template literal
\* throws before html() is called.
updateLocationDisplay(data) ==
    LET id == data.shipment_id IN
    IF locationDisplay[id].present /\ data.location.defined
    THEN locationDisplay' =
             [locationDisplay EXCEPT ![id] =
                 [present |-> TRUE, updated |-> TRUE,
                  lat |-> toFixed4(data.location.lat),
                  lng |-> toFixed4(data.location.lng)]]
    ELSE locationDisplay' = locationDisplay

\* TFSTWebSocket's 'location_update' listener: handleLocationUpdate. No
\* component of the repository listens to the 'location:update' DOM event.
handleLocationUpdate(data) ==
    /\ updateLocationDisplay(data)
    /\ UNCHANGED markers

\* TFSTShipments' 'location_update' listener calls this.updateMapMarker,
\* which the class does not define: the listener throws a TypeError and
\* this.markers stays as it is.
updateMapMarker(shipmentId, location) ==
    /\ UNCHANGED <<locationDisplay, markers>>

\* ------------------------------------- sessions and subscription registry

\* Browser sessions connected to the server, and most messages in flight
\* from all of them together.
NumSessions == 2
MaxWire == 1

Sessions == 1..NumSessions

RegInit ==
    /\ sessConnected = [s \in Sessions |-> FALSE]
    /\ wire = [s \in Sessions |-> <<>>]
    /\ registry = {}
    /\ asked = [s \in Sessions |-> [now |-> {}, lost |-> {}]]

\* No other session, for the other specifications.
RegIdle == RegInit

InFlight == LET n[k \in 0..NumSessions] ==
                    IF k = 0 THEN 0 ELSE n[k - 1] + Len(wire[k])
            IN  n[NumSessions]

\* sessionsFor(shipmentId) of the registry.
sessionsFor(shipmentId) == {s \in Sessions : <<s, shipmentId>> \in registry}

\* socket 'connect' in session s: this.connected = true.
sessionConnect(s) ==
    /\ ~sessConnected[s]
    /\ sessConnected' = [sessConnected EXCEPT ![s] = TRUE]
    /\ asked' = [asked EXCEPT ![s].lost = {}]
    /\ UNCHANGED <<wire, registry>>

\* An emit that does not look at this.connected: socket.io keeps the message
\* and sends it once the socket is connected.
sessionEmit_unguarded(s, type, id) ==
    /\ InFlight < MaxWire
    /\ wire' = [wire EXCEPT ![s] = Append(@, Msg(type, id))]

\* this.socket.emit(type, {shipment_id}) behind `if (this.connected)`, in
\* session s.
sessionEmit(s, type, id) ==
    IF sessConnected[s]
    THEN /\ InFlight < MaxWire
         /\ wire' = [wire EXCEPT ![s] = Append(@, Msg(type, id))]
    ELSE wire' = wire

\* subscribeToShipment(id) called in session s.
sessionSubscribe(s, id) ==
    /\ sessionEmit(s, "subscribe_shipment", id)
    /\ asked' = IF sessConnected[s] THEN [asked EXCEPT ![s].now = @ \cup {id}]
                                    ELSE asked
    /\ UNCHANGED <<sessConnected, registry>>

\* unsubscribeFromShipment(id) called in session s.
sessionUnsubscribe(s, id) ==
    /\ sessionEmit(s, "unsubscribe_shipment", id)
    /\ asked' = IF sessConnected[s] THEN [asked EXCEPT ![s].now = @ \ {id}]
                                    ELSE asked
    /\ UNCHANGED <<sessConnected, registry>>

\* The server receives the oldest message of session s in flight and calls
\* the registry's subscribe(session, shipmentId) or unsubscribe.
serverReceive(s) ==
    /\ wire[s] # <<>>
    /\ LET m == Head(wire[s]) IN
       registry' = IF m.type = "subscribe_shipment"
                   THEN registry \cup {<<s, m.shipment_id>>}
                   ELSE registry \ {<<s, m.shipment_id>>}
    /\ wire' = [wire EXCEPT ![s] = Tail(@)]
    /\ UNCHANGED <<sessConnected, asked>>

\* Session s loses its connection: socket 'disconnect' sets this.connected =
\* false, what was in flight is lost, and the registry prunes every
\* subscription of the session.
sessionDisconnect(s) ==
    /\ sessConnected[s]
    /\ sessConnected' = [sessConnected EXCEPT ![s] = FALSE]
    /\ wire' = [wire EXCEPT ![s] = <<>>]
    /\ registry' = {p \in registry : p[1] # s}
    /\ asked' = [asked EXCEPT ![s] = [now |-> {}, lost |-> asked[s].now]]

\* ---------------------------------------------------------- specifications

Max(a, b) == IF a >= b THEN a ELSE b

HistInit ==
    /\ lastOp = "load"
    /\ maxTs = [i \in Ids |-> 0]
    /\ lastEv = NoEv
    /\ repeat = FALSE
    /\ noteIds = <<>>
    /\ timerIds = <<>>

\* The shipments page's selection state on its own: the rows' badges, the
\* notifications and the channel are left out of this specification.
InitSel == SelInit /\ ChanIdle /\ RecIdle /\ LocIdle /\ RegIdle /\ TimeIdle /\ CallIdle /\ FanIdle /\ DashIdle /\ DebIdle /\ HistInit

NextSel ==
    \/ \E id \in Ids : handleShipmentSelect(id) /\ UNCHANGED <<debVars, dashVars, fanVars, callVars, timeVars, regVars, locVars, chanVars, recVars, histVars>>
    \/ handleSelectAll /\ UNCHANGED <<debVars, dashVars, fanVars, callVars, timeVars, regVars, locVars, chanVars, recVars, histVars>>
    \/ refreshData /\ UNCHANGED <<debVars, dashVars, fanVars, callVars, timeVars, regVars, locVars, chanVars, recVars, histVars>>
    \/ applyFilters /\ UNCHANGED <<debVars, dashVars, fanVars, callVars, timeVars, regVars, locVars, chanVars, recVars, histVars>>
    \/ dataTableDraw /\ UNCHANGED <<debVars, dashVars, fanVars, callVars, timeVars, regVars, locVars, chanVars, recVars, histVars>>

SpecSel == InitSel /\ [][NextSel]_vars

\* The WebSocket client's channel on its own.
InitChan == ChanInit /\ SelIdle /\ RecIdle /\ LocIdle /\ RegIdle /\ TimeIdle /\ CallIdle /\ FanIdle /\ DashIdle /\ DebIdle /\ HistInit

NextChan ==
    \/ onConnect /\ UNCHANGED <<debVars, dashVars, fanVars, callVars, timeVars, regVars, locVars, selVars, recVars, lastOp, histVars>>
    \/ onReconnect /\ UNCHANGED <<debVars, dashVars, fanVars, callVars, timeVars, regVars, locVars, selVars, recVars, lastOp, histVars>>
    \/ onDisconnect /\ UNCHANGED <<debVars, dashVars, fanVars, callVars, timeVars, regVars, locVars, selVars, recVars, lastOp, histVars>>
    \/ onConnectError /\ UNCHANGED <<debVars, dashVars, fanVars, callVars, timeVars, regVars, locVars, selVars, recVars, lastOp, histVars>>
    \/ \E id \in Ids : subscribeToShipment(id) /\ UNCHANGED <<debVars, dashVars, fanVars, callVars, timeVars, regVars, locVars, selVars, recVars, lastOp, histVars>>
    \/ \E id \in Ids : unsubscribeFromShipment(id) /\ UNCHANGED <<debVars, dashVars, fanVars, callVars, timeVars, regVars, locVars, selVars, recVars, lastOp, histVars>>
    \/ \E id \in Ids : requestShipmentStatus(id) /\ UNCHANGED <<debVars, dashVars, fanVars, callVars, timeVars, regVars, locVars, selVars, recVars, lastOp, histVars>>
    \/ ping /\ UNCHANGED <<debVars, dashVars, fanVars, callVars, timeVars, regVars, locVars, selVars, recVars, lastOp, histVars>>

SpecChan == InitChan /\ [][NextChan]_vars

\* The shipments page's rows under shipment_update events, delivered to
\* TFSTWebSocket and to TFSTShipments, each on its own socket, in any order.
\* maxTs keeps the latest timestamp applied to each row.
InitLww == RecInit /\ ChanIdle /\ LocIdle /\ RegIdle /\ TimeIdle /\ CallIdle /\ FanIdle /\ DashIdle /\ DebIdle /\ HistInit

TrackTs(data) ==
    maxTs' = [maxTs EXCEPT ![data.shipment_id] = Max(@, data.ts)]

NextLww ==
    \/ \E data \in Updates :
          handleShipmentUpdate(data) /\ TrackTs(data)
              /\ UNCHANGED <<debVars, dashVars, fanVars, callVars, timeVars, regVars, locVars, chanVars, lastOp, lastEv, repeat, noteVars>>
    \/ \E data \in Updates :
          handleRealtimeUpdate(data) /\ TrackTs(data)
              /\ UNCHANGED <<debVars, dashVars, fanVars, callVars, timeVars, regVars, locVars, chanVars, lastOp, lastEv, repeat, noteVars>>
    \/ \E id \in Ids : infoTimer(id) /\ UNCHANGED <<debVars, dashVars, fanVars, callVars, timeVars, regVars, locVars, chanVars, lastOp, histVars>>
    \/ \E id \in Ids : warningTimer(id) /\ UNCHANGED <<debVars, dashVars, fanVars, callVars, timeVars, regVars, locVars, chanVars, lastOp, histVars>>
    \/ alertTimer /\ UNCHANGED <<debVars, dashVars, fanVars, callVars, timeVars, regVars, locVars, chanVars, lastOp, histVars>>
    \/ \E i \in 1..MaxBody : dismissNotification(i)
          /\ UNCHANGED <<debVars, dashVars, fanVars, callVars, timeVars, regVars, locVars, chanVars, lastOp, histVars>>

SpecLww == InitLww /\ [][NextLww]_vars

\* The shipments page's rows under shipment_update events while status-update
\* requests are sent and answered.
InitEdit == RecInit /\ ChanIdle /\ LocIdle /\ RegIdle /\ TimeIdle /\ CallIdle /\ FanIdle /\ DashIdle /\ DebIdle /\ HistInit

NextEdit ==
    \/ \E id \in Ids : updateShipmentStatus(id) /\ UNCHANGED <<debVars, dashVars, fanVars, callVars, timeVars, regVars, locVars, chanVars, lastOp, histVars>>
    \/ \E id \in Ids : updateSucceeded(id) /\ UNCHANGED <<debVars, dashVars, fanVars, callVars, timeVars, regVars, locVars, chanVars, histVars>>
    \/ \E id \in Ids, response \in FailedResponses :
          updateFailed(id, response) /\ UNCHANGED <<debVars, dashVars, fanVars, callVars, timeVars, regVars, locVars, chanVars, lastOp, histVars>>
    \/ \E data \in Updates :
          handleShipmentUpdate(data) /\ UNCHANGED <<debVars, dashVars, fanVars, callVars, timeVars, regVars, locVars, chanVars, lastOp, histVars>>
    \/ \E data \in Updates :
          handleRealtimeUpdate(data) /\ UNCHANGED <<debVars, dashVars, fanVars, callVars, timeVars, regVars, locVars, chanVars, lastOp, histVars>>
    \/ \E id \in Ids : infoTimer(id) /\ UNCHANGED <<debVars, dashVars, fanVars, callVars, timeVars, regVars, locVars, chanVars, lastOp, histVars>>
    \/ \E id \in Ids : warningTimer(id) /\ UNCHANGED <<debVars, dashVars, fanVars, callVars, timeVars, regVars, locVars, chanVars, lastOp, histVars>>
    \/ alertTimer /\ UNCHANGED <<debVars, dashVars, fanVars, callVars, timeVars, regVars, locVars, chanVars, lastOp, histVars>>
    \/ \E i \in 1..MaxBody : dismissNotification(i)
          /\ UNCHANGED <<debVars, dashVars, fanVars, callVars, timeVars, regVars, locVars, chanVars, lastOp, histVars>>

SpecEdit == InitEdit /\ [][NextEdit]_vars

\* TFSTWebSocket's rendering of shipment_update events on a page with rows and
\* a detail view. lastEv is the event last applied to the view as it stands:
\* opening or closing the detail view forgets it, timers and dismissals (which
\* touch neither badge nor detail fields) keep it.
InitIdem == RecInit /\ ChanIdle /\ LocIdle /\ RegIdle /\ TimeIdle /\ CallIdle /\ FanIdle /\ DashIdle /\ DebIdle /\ HistInit

NextIdem ==
    \/ \E data \in Updates :
          /\ handleShipmentUpdate(data)
          /\ lastEv' = data
          /\ repeat' = (lastEv = data)
          /\ UNCHANGED <<debVars, dashVars, fanVars, callVars, timeVars, regVars, locVars, chanVars, lastOp, maxTs, noteVars>>
    \/ \E id \in Ids \cup {0} :
          /\ showDetail(id)
          /\ lastEv' = NoEv
          /\ repeat' = FALSE
          /\ UNCHANGED <<debVars, dashVars, fanVars, callVars, timeVars, regVars, locVars, chanVars, lastOp, maxTs, noteVars>>
    \/ \E id \in Ids :
          infoTimer(id) /\ repeat' = FALSE /\ UNCHANGED <<debVars, dashVars, fanVars, callVars, timeVars, regVars, locVars, chanVars, lastOp, maxTs, lastEv, noteVars>>
    \/ \E i \in 1..MaxBody :
          dismissNotification(i) /\ repeat' = FALSE
              /\ UNCHANGED <<debVars, dashVars, fanVars, callVars, timeVars, regVars, locVars, chanVars, lastOp, maxTs, lastEv, noteVars>>

SpecIdem == InitIdem /\ [][NextIdem]_vars

\* Emergency alerts on a page whose session connects, subscribes and
\* unsubscribes: socket.io delivers an event only while the socket is connected.
\* lastOp names the handler each step ran.
InitAlert == ChanInit /\ SelIdle /\ RecIdle /\ LocIdle /\ RegIdle /\ TimeIdle /\ CallIdle /\ FanIdle /\ DashIdle /\ DebIdle /\ HistInit

NextAlert ==
    \/ \E data \in EmergencyAlerts :
          /\ chan = "open"
          /\ handleEmergencyAlert(data)
          /\ lastOp' = "emergency_alert"
          /\ UNCHANGED <<debVars, dashVars, fanVars, callVars, timeVars, regVars, locVars, chanVars, histVars>>
    \/ \E i \in 1..MaxBody :
          acknowledge(i) /\ lastOp' = "acknowledge" /\ UNCHANGED <<debVars, dashVars, fanVars, callVars, timeVars, regVars, locVars, chanVars, histVars>>
    \/ onConnect /\ lastOp' = "connect" /\ UNCHANGED <<debVars, dashVars, fanVars, callVars, timeVars, regVars, locVars, selVars, recVars, histVars>>
    \/ onDisconnect /\ lastOp' = "disconnect"
          /\ UNCHANGED <<debVars, dashVars, fanVars, callVars, timeVars, regVars, locVars, selVars, recVars, histVars>>
    \/ onConnectError /\ lastOp' = "connect_error"
          /\ UNCHANGED <<debVars, dashVars, fanVars, callVars, timeVars, regVars, locVars, selVars, recVars, histVars>>
    \/ \E id \in Ids :
          subscribeToShipment(id) /\ lastOp' = "subscribe"
              /\ UNCHANGED <<debVars, dashVars, fanVars, callVars, timeVars, regVars, locVars, selVars, recVars, histVars>>
    \/ \E id \in Ids :
          unsubscribeFromShipment(id) /\ lastOp' = "unsubscribe"
              /\ UNCHANGED <<debVars, dashVars, fanVars, callVars, timeVars, regVars, locVars, selVars, recVars, histVars>>

SpecAlert == InitAlert /\ [][NextAlert]_vars

\* Notifications and emergency alerts on a page that loads websocket.js and
\* shipments.js and shows no row of the shipments the events are about:
\* TFSTWebSocket answers a shipment_update with a toast, TFSTShipments with an
\* alert and its 5000 ms timer. Timers of equal delay come due in the order
\* they were set. noteIds and timerIds give every notification of
\* TFSTShipments.showNotification and its timer a serial of their own.
InitNotify == SelIdle /\ ChanIdle /\ RecIdle /\ LocIdle /\ RegIdle /\ TimeIdle /\ CallIdle /\ FanIdle /\ DashIdle /\ DebIdle /\ HistInit

FreshSerial ==
    CHOOSE n \in 1..(MaxBody + MaxAlertTimers + 1) :
        /\ n \notin Range(noteIds) \cup Range(timerIds)
        /\ \A m \in 1..(n - 1) : m \in Range(noteIds) \cup Range(timerIds)

\* The element $('.alert').last() is, as an index of body; 0 when none.
LastAlert ==
    IF AlertIndexes = {} THEN 0
    ELSE CHOOSE i \in AlertIndexes : \A j \in AlertIndexes : j <= i

NextNotify ==
    \/ \E data \in Updates :
          /\ handleRealtimeUpdate(data)
          /\ noteIds' = Append(noteIds, FreshSerial)
          /\ timerIds' = Append(timerIds, FreshSerial)
          /\ lastOp' = "notify"
          /\ UNCHANGED <<debVars, dashVars, fanVars, callVars, timeVars, regVars, locVars, chanVars, maxTs, lastEv, repeat>>
    \/ \E data \in Updates :
          /\ handleShipmentUpdate(data)
          /\ noteIds' = Append(noteIds, 0)
          /\ lastOp' = "toast"
          /\ UNCHANGED <<debVars, dashVars, fanVars, callVars, timeVars, regVars, locVars, chanVars, maxTs, lastEv, repeat, timerIds>>
    \/ \E data \in EmergencyAlerts :
          /\ handleEmergencyAlert(data)
          /\ noteIds' = Append(noteIds, 0)
          /\ lastOp' = "emergency_alert"
          /\ UNCHANGED <<debVars, dashVars, fanVars, callVars, timeVars, regVars, locVars, chanVars, maxTs, lastEv, repeat, timerIds>>
    \/ /\ alertTimer
       /\ timerIds' = Tail(timerIds)
       /\ noteIds' = IF LastAlert # 0 /\ body[LastAlert].kind = "alert"
                     THEN Remove(noteIds, LastAlert)
                     ELSE noteIds
       /\ lastOp' = "alert_timer"
       /\ UNCHANGED <<debVars, dashVars, fanVars, callVars, timeVars, regVars, locVars, chanVars, maxTs, lastEv, repeat>>
    \/ \E i \in 1..MaxBody :
          /\ dismissNotification(i)
          /\ noteIds' = Remove(noteIds, i)
          /\ lastOp' = "dismiss"
          /\ UNCHANGED <<debVars, dashVars, fanVars, callVars, timeVars, regVars, locVars, chanVars, maxTs, lastEv, repeat, timerIds>>
    \/ \E i \in 1..MaxBody :
          /\ acknowledge(i)
          /\ noteIds' = Remove(noteIds, i)
          /\ lastOp' = "acknowledge"
          /\ UNCHANGED <<debVars, dashVars, fanVars, callVars, timeVars, regVars, locVars, chanVars, maxTs, lastEv, repeat, timerIds>>

SpecNotify == InitNotify /\ [][NextNotify]_vars

\* The shipments page in the first moments after it loads, before any timer
\* comes due: the operator ticks and unticks rows while shipment_update
\* events reach TFSTWebSocket and TFSTShipments. lastEv is the event the
\* last step applied.
InitFrame == RecInit /\ ChanIdle /\ LocIdle /\ RegIdle /\ TimeIdle /\ CallIdle /\ FanIdle /\ DashIdle /\ DebIdle /\ HistInit

NextFrame ==
    \/ \E data \in Updates :
          /\ handleShipmentUpdate(data)
          /\ lastEv' = data
          /\ lastOp' = "ws_update"
          /\ UNCHANGED <<debVars, dashVars, fanVars, callVars, timeVars, regVars, locVars, chanVars, maxTs, repeat, noteVars>>
    \/ \E data \in Updates :
          /\ handleRealtimeUpdate(data)
          /\ lastEv' = data
          /\ lastOp' = "sh_update"
          /\ UNCHANGED <<debVars, dashVars, fanVars, callVars, timeVars, regVars, locVars, chanVars, maxTs, repeat, noteVars>>
    \/ \E id \in Ids :
          /\ handleShipmentSelect(id)
          /\ lastEv' = NoEv
          /\ UNCHANGED <<debVars, dashVars, fanVars, callVars, timeVars, regVars, locVars, chanVars, recVars, maxTs, repeat, noteVars>>

SpecFrame == InitFrame /\ [][NextFrame]_vars

\* Status-update requests of the shipments page and their answers. lastOp
\* tells what the answer of the last step was.
InitRequest == RecInit /\ ChanIdle /\ LocIdle /\ RegIdle /\ TimeIdle /\ CallIdle /\ FanIdle /\ DashIdle /\ DebIdle /\ HistInit

NextRequest ==
    \/ \E id \in Ids :
          /\ updateShipmentStatus(id)
          /\ lastOp' = "request"
          /\ UNCHANGED <<debVars, dashVars, fanVars, callVars, timeVars, regVars, locVars, chanVars, histVars>>
    \/ \E id \in Ids : updateSucceeded(id) /\ UNCHANGED <<debVars, dashVars, fanVars, callVars, timeVars, regVars, locVars, chanVars, histVars>>
    \/ \E id \in Ids, response \in FailedResponses :
          /\ updateFailed(id, response)
          /\ lastOp' = IF ~response.error.present THEN "failed, no error given"
                       ELSE IF response.error.text = "" THEN "failed, empty error"
                       ELSE "failed, error given"
          /\ UNCHANGED <<debVars, dashVars, fanVars, callVars, timeVars, regVars, locVars, chanVars, histVars>>
    \/ alertTimer /\ lastOp' = "alert_timer" /\ UNCHANGED <<debVars, dashVars, fanVars, callVars, timeVars, regVars, locVars, chanVars, histVars>>
    \/ \E i \in 1..MaxBody :
          dismissNotification(i) /\ lastOp' = "dismiss"
              /\ UNCHANGED <<debVars, dashVars, fanVars, callVars, timeVars, regVars, locVars, chanVars, histVars>>

SpecRequest == InitRequest /\ [][NextRequest]_vars

\* The shipments page in the first moments after it loads, receiving
\* shipment_update and location_update events, some of them without their
\* current_status or location, on the sockets of TFSTWebSocket and of
\* TFSTShipments. A listener that throws ends that callback only: the socket
\* calls the listeners again for the next event. lastEv is the event the
\* last step delivered.
InitEvents == RecInit /\ LocInit /\ ChanIdle /\ RegIdle /\ TimeIdle /\ CallIdle /\ FanIdle /\ DashIdle /\ DebIdle /\ HistInit

NextEvents ==
    \/ \E data \in Updates \cup Malformed :
          /\ handleShipmentUpdate(data)
          /\ lastEv' = data
          /\ lastOp' = "ws_update"
          /\ UNCHANGED <<debVars, dashVars, fanVars, callVars, timeVars, regVars, locVars, chanVars, maxTs, repeat, noteVars>>
    \/ \E data \in Updates \cup Malformed :
          /\ handleRealtimeUpdate(data)
          /\ lastEv' = data
          /\ lastOp' = "sh_update"
          /\ UNCHANGED <<debVars, dashVars, fanVars, callVars, timeVars, regVars, locVars, chanVars, maxTs, repeat, noteVars>>
    \/ \E data \in LocationUpdates \cup MalformedLocations :
          /\ handleLocationUpdate(data)
          /\ lastEv' = data
          /\ lastOp' = "ws_location"
          /\ UNCHANGED <<debVars, dashVars, fanVars, callVars, timeVars, regVars, selVars, recVars, chanVars, maxTs, repeat, noteVars>>
    \/ \E data \in LocationUpdates \cup MalformedLocations :
          /\ updateMapMarker(data.shipment_id, data.location)
          /\ lastEv' = data
          /\ lastOp' = "sh_location"
          /\ UNCHANGED <<debVars, dashVars, fanVars, callVars, timeVars, regVars, selVars, recVars, chanVars, maxTs, repeat, noteVars>>

SpecEvents == InitEvents /\ [][NextEvents]_vars

\* Sessions subscribing to and unsubscribing from shipments, connecting and
\* disconnecting, and the server's registry receiving their requests in the
\* order each session sent them.
InitRegistry == SelIdle /\ ChanIdle /\ RecIdle /\ LocIdle /\ RegInit /\ TimeIdle /\ CallIdle /\ FanIdle /\ DashIdle /\ DebIdle /\ HistInit

NextRegistry ==
    \/ \E s \in Sessions :
          sessionConnect(s)
              /\ UNCHANGED <<debVars, dashVars, fanVars, callVars, timeVars, selVars, chanVars, recVars, locVars, lastOp, histVars>>
    \/ \E s \in Sessions, id \in Ids :
          sessionSubscribe(s, id)
              /\ UNCHANGED <<debVars, dashVars, fanVars, callVars, timeVars, selVars, chanVars, recVars, locVars, lastOp, histVars>>
    \/ \E s \in Sessions, id \in Ids :
          sessionUnsubscribe(s, id)
              /\ UNCHANGED <<debVars, dashVars, fanVars, callVars, timeVars, selVars, chanVars, recVars, locVars, lastOp, histVars>>
    \/ \E s \in Sessions :
          serverReceive(s)
              /\ UNCHANGED <<debVars, dashVars, fanVars, callVars, timeVars, selVars, chanVars, recVars, locVars, lastOp, histVars>>
    \/ \E s \in Sessions :
          sessionDisconnect(s)
              /\ UNCHANGED <<debVars, dashVars, fanVars, callVars, timeVars, selVars, chanVars, recVars, locVars, lastOp, histVars>>

SpecRegistry == InitRegistry /\ [][NextRegistry]_vars

\* The WebSocket client's channel and the ping interval set on document
\* ready, second by second.
InitPing ==
    ChanInit /\ SelIdle /\ RecIdle /\ LocIdle /\ RegIdle /\ TimeIdle /\ CallIdle /\ FanIdle /\ DashIdle /\ DebIdle /\ HistInit

NextPing ==
    \/ second /\ UNCHANGED <<debVars, dashVars, fanVars, callVars, selVars, chanVars, recVars, locVars, regVars, lastOp, histVars>>
    \/ intervalTick /\ UNCHANGED <<debVars, dashVars, fanVars, callVars, selVars, recVars, locVars, regVars, lastOp, histVars>>
    \/ onConnect /\ UNCHANGED <<debVars, dashVars, fanVars, callVars, timeVars, selVars, recVars, locVars, regVars, lastOp, histVars>>
    \/ onReconnect /\ UNCHANGED <<debVars, dashVars, fanVars, callVars, timeVars, selVars, recVars, locVars, regVars, lastOp, histVars>>
    \/ onDisconnect /\ UNCHANGED <<debVars, dashVars, fanVars, callVars, timeVars, selVars, recVars, locVars, regVars, lastOp, histVars>>
    \/ onConnectError /\ UNCHANGED <<debVars, dashVars, fanVars, callVars, timeVars, selVars, recVars, locVars, regVars, lastOp, histVars>>

SpecPing == InitPing /\ [][NextPing]_vars

\* The WebSocket client's channel and its public methods, called by other
\* components at any moment of the connection's life: while it connects,
\* while it is open, after a loss and once it is open again (attempts that
\* fail on the way change nothing the methods read). lastCall is the message
\* the call of the last step asked for; dropped tells that a call was made
\* while this.connected was false.
InitCalls ==
    ChanInit /\ SelIdle /\ RecIdle /\ LocIdle /\ RegIdle /\ TimeIdle /\ FanIdle /\ DashIdle /\ DebIdle /\ HistInit
        /\ CallIdle

Called(type, id) ==
    /\ lastCall' = Msg(type, id)
    /\ dropped' = (dropped \/ ~connected)

NotCalled == lastCall' = NoCall /\ dropped' = dropped

NextCalls ==
    \/ onConnect /\ NotCalled /\ UNCHANGED <<debVars, dashVars, fanVars, timeVars, regVars, locVars, selVars, recVars, lastOp, histVars>>
    \/ onReconnect /\ NotCalled /\ UNCHANGED <<debVars, dashVars, fanVars, timeVars, regVars, locVars, selVars, recVars, lastOp, histVars>>
    \/ onDisconnect /\ NotCalled /\ UNCHANGED <<debVars, dashVars, fanVars, timeVars, regVars, locVars, selVars, recVars, lastOp, histVars>>
    \/ \E id \in Ids :
          subscribeToShipment(id) /\ Called("subscribe_shipment", id)
              /\ UNCHANGED <<debVars, dashVars, fanVars, timeVars, regVars, locVars, selVars, recVars, lastOp, histVars>>
    \/ \E id \in Ids :
          unsubscribeFromShipment(id) /\ Called("unsubscribe_shipment", id)
              /\ UNCHANGED <<debVars, dashVars, fanVars, timeVars, regVars, locVars, selVars, recVars, lastOp, histVars>>
    \/ \E id \in Ids :
          requestShipmentStatus(id) /\ Called("request_shipment_status", id)
              /\ UNCHANGED <<debVars, dashVars, fanVars, timeVars, regVars, locVars, selVars, recVars, lastOp, histVars>>

SpecCalls == InitCalls /\ [][NextCalls]_vars

\* A shipments page that loads websocket.js and shipments.js: each of the
\* server's shipment_update events reaches both sockets, in either order,
\* before the timers the listeners set come due.
InitFanout ==
    RecInit /\ ChanIdle /\ LocIdle /\ RegIdle /\ TimeIdle /\ CallIdle /\ FanIdle
        /\ DashIdle /\ DebIdle /\ HistInit

NextFanout ==
    \/ \E data \in Updates :
          serverEmit(data) /\ UNCHANGED <<debVars, dashVars, callVars, timeVars, regVars, locVars, selVars, chanVars, recVars, lastOp, histVars>>
    \/ deliverToWebSocket /\ UNCHANGED <<debVars, dashVars, callVars, timeVars, regVars, locVars, chanVars, lastOp, histVars>>
    \/ deliverToShipments /\ UNCHANGED <<debVars, dashVars, callVars, timeVars, regVars, locVars, chanVars, lastOp, histVars>>
    \/ \E id \in Ids :
          ~emitted.ws /\ ~emitted.sh /\ infoTimer(id)
              /\ UNCHANGED <<debVars, dashVars, fanVars, callVars, timeVars, regVars, locVars, chanVars, lastOp, histVars>>
    \/ \E id \in Ids :
          ~emitted.ws /\ ~emitted.sh /\ warningTimer(id)
              /\ UNCHANGED <<debVars, dashVars, fanVars, callVars, timeVars, regVars, locVars, chanVars, lastOp, histVars>>
    \/ ~emitted.ws /\ ~emitted.sh /\ alertTimer
          /\ UNCHANGED <<debVars, dashVars, fanVars, callVars, timeVars, regVars, locVars, chanVars, lastOp, histVars>>
    \/ \E i \in 1..MaxBody :
          ~emitted.ws /\ ~emitted.sh /\ dismissNotification(i)
              /\ UNCHANGED <<debVars, dashVars, fanVars, callVars, timeVars, regVars, locVars, chanVars, lastOp, histVars>>

SpecFanout == InitFanout /\ [][NextFanout]_vars

\* The dashboard: KPI requests issued by the interval, by the refresh
\* button and after shipment_update events, answered in any order.
\* kpiNewest keeps the latest-issued request that was answered with a
\* snapshot.
InitKpi ==
    SelIdle /\ ChanIdle /\ RecIdle /\ LocIdle /\ RegIdle /\ TimeIdle /\ CallIdle
        /\ FanIdle /\ DashInit /\ DebIdle /\ HistInit

NoAnswer == kpiNewest' = kpiNewest

NextKpi ==
    \/ autoRefresh /\ NoAnswer /\ UNCHANGED <<debVars, selVars, chanVars, badge, flash, detailFor, detailStatus, detailUpdated, pending, locVars, regVars, timeVars, callVars, fanVars, lastOp, histVars>>
    \/ dashboardRefreshData /\ NoAnswer /\ UNCHANGED <<debVars, selVars, chanVars, badge, flash, detailFor, detailStatus, detailUpdated, pending, locVars, regVars, timeVars, callVars, fanVars, lastOp, histVars>>
    \/ loadingTimer /\ NoAnswer /\ UNCHANGED <<debVars, selVars, chanVars, badge, flash, detailFor, detailStatus, detailUpdated, pending, locVars, regVars, timeVars, callVars, fanVars, lastOp, histVars>>
    \/ recentAnswered /\ NoAnswer /\ UNCHANGED <<debVars, selVars, chanVars, badge, flash, detailFor, detailStatus, detailUpdated, pending, locVars, regVars, timeVars, callVars, fanVars, lastOp, histVars>>
    \/ \E n \in 1..MaxRequests, success \in BOOLEAN :
          /\ kpiDone(n, success)
          /\ kpiNewest' = IF success THEN Max(kpiNewest, n) ELSE kpiNewest
          /\ UNCHANGED <<debVars, selVars, chanVars, badge, flash, detailFor, detailStatus, detailUpdated, pending, locVars, regVars, timeVars, callVars, fanVars, lastOp, histVars>>
    \/ \E n \in 1..MaxRequests :
          kpiFail(n) /\ NoAnswer /\ UNCHANGED <<debVars, selVars, chanVars, badge, flash, detailFor, detailStatus, detailUpdated, pending, locVars, regVars, timeVars, callVars, fanVars, lastOp, histVars>>
    \/ \E data \in Updates :
          dashboardHandleRealtimeUpdate(data) /\ NoAnswer
              /\ UNCHANGED <<debVars, selVars, chanVars, badge, flash, detailFor, detailStatus, detailUpdated, pending, locVars, regVars, timeVars, callVars, fanVars, lastOp, histVars>>
    \/ kpiTimer /\ NoAnswer /\ UNCHANGED <<debVars, selVars, chanVars, badge, flash, detailFor, detailStatus, detailUpdated, pending, locVars, regVars, timeVars, callVars, fanVars, lastOp, histVars>>
    \/ alertTimer /\ UNCHANGED <<debVars, dashVars, chanVars, locVars, regVars, timeVars, callVars, fanVars, lastOp, histVars>>
    \/ \E i \in 1..MaxBody :
          dismissNotification(i) /\ UNCHANGED <<debVars, dashVars, chanVars, locVars, regVars, timeVars, callVars, fanVars, lastOp, histVars>>

SpecKpi == InitKpi /\ [][NextKpi]_vars

\* The shipments page with the rows it was loaded with, none added, removed
\* or redrawn: the operator ticks and unticks rows and #selectAll while
\* shipment_update events reach TFSTShipments. lastOp names the handler
\* each step ran.
InitToggle ==
    RecInit /\ ChanIdle /\ LocIdle /\ RegIdle /\ TimeIdle /\ CallIdle /\ FanIdle
        /\ DashIdle /\ DebIdle /\ HistInit

NextToggle ==
    \/ \E id \in Ids :
          handleShipmentSelect(id) /\ UNCHANGED <<debVars, dashVars, fanVars, callVars, timeVars, regVars, locVars, chanVars, recVars, histVars>>
    \/ handleSelectAll /\ UNCHANGED <<debVars, dashVars, fanVars, callVars, timeVars, regVars, locVars, chanVars, recVars, histVars>>
    \/ \E data \in Updates :
          handleRealtimeUpdate(data) /\ lastOp' = "sh_update"
              /\ UNCHANGED <<debVars, dashVars, fanVars, callVars, timeVars, regVars, locVars, chanVars, histVars>>
    \/ \E id \in Ids :
          warningTimer(id) /\ lastOp' = "warning_timer" /\ UNCHANGED <<debVars, dashVars, fanVars, callVars, timeVars, regVars, locVars, chanVars, histVars>>
    \/ alertTimer /\ lastOp' = "alert_timer" /\ UNCHANGED <<debVars, dashVars, fanVars, callVars, timeVars, regVars, locVars, chanVars, histVars>>

SpecToggle == InitToggle /\ [][NextToggle]_vars

\* The function debounce returned, called at any moment with any of Args
\* while time passes and its timers run. burst counts the calls made while
\* no timer was pending and keeps the most recent call's args and age.
InitDebounce ==
    SelIdle /\ ChanIdle /\ RecIdle /\ LocIdle /\ RegIdle /\ TimeIdle /\ CallIdle
        /\ FanIdle /\ DashIdle /\ DebInit /\ HistInit

NextDebounce ==
    \/ \E args \in Args :
          /\ executedFunction(args)
          /\ burst' = [bursts |-> burst.bursts + (IF timers = <<>> THEN 1 ELSE 0),
                       lastArgs |-> args, sinceCall |-> 0]
          /\ lastOp' = "call"
          /\ UNCHANGED <<dashVars, fanVars, callVars, selVars, chanVars, recVars, locVars, regVars, timeVars, histVars>>
    \/ \E i \in 1..MaxCalls :
          /\ later(i)
          /\ burst' = burst
          /\ lastOp' = "func"
          /\ UNCHANGED <<dashVars, fanVars, callVars, selVars, chanVars, recVars, locVars, regVars, timeVars, histVars>>
    \/ /\ tick
       /\ burst' = [burst EXCEPT !.sinceCall = IF @ <= wait THEN @ + 1 ELSE @]
       /\ lastOp' = "tick"
       /\ UNCHANGED <<dashVars, fanVars, callVars, selVars, chanVars, recVars, locVars, regVars, timeVars, histVars>>

SpecDebounce == InitDebounce /\ [][NextDebounce]_vars

\* ------------------------------------------------------------------ claims

\* C1: in every reachable state the selection set is a subset of the shipment
\* ids currently rendered in the table.
C1_SelectionSubsetOfRendered == selectedShipments \subseteq rendered

\* C2: after a table refresh the selection equals the pre-refresh selection
\* intersected with the newly rendered id set.
C2_RefreshIntersects ==
    lastOp = "refresh" => selectedShipments = preRefresh \cap rendered

\* C3: after every selection operation the select-all control is checked iff
\* the selected count equals the rendered row count and is > 0, indeterminate
\* iff 0 < selected count < total, and otherwise neither.
C3_TriState ==
    lastOp \in {"select", "selectAll"} =>
        LET n == Cardinality(selectedShipments)
            total == Cardinality(rendered)
        IN  /\ selectAllChecked <=> (n = total /\ n > 0)
            /\ selectAllIndeterminate <=> (0 < n /\ n < total)

\* C4: whenever the channel is connected again after failed attempts, the
\* reconnect attempt counter is 0 (the client's and socket.io's, so the next
\* loss gets all maxReconnectAttempts attempts) and the indicator, where the
\* page has one, shows 'connected'.
C4_ReconnectResets ==
    /\ (chan = "open" /\ failedBefore > 0) =>
          /\ connected
          /\ reconnectAttempts = 0
          /\ mgrAttempts = 0
          /\ hasStatusElement => connectionStatus = "connected"
    /\ (chan = "failed" /\ failedBefore > 0) => failures = maxReconnectAttempts

\* C4's case: the channel was open before (a subscription of an earlier epoch
\* is on record, none was emitted in this one), then 3 attempts failed and the
\* 4th connected.
C4_Witness ==
    /\ chan = "open" /\ connected /\ hasStatusElement
    /\ failedBefore = 3
    /\ wanted # {} /\ outbox = <<>>

\* C5: the channel gives up only once maxReconnectAttempts attempts have
\* failed, makes no attempt after that, and entering the failed state is
\* observable on the page's connection indicator.
C5_FailedObservable ==
    [][ /\ (chan # "failed" /\ chan' = "failed") =>
              /\ failures' >= maxReconnectAttempts
              /\ hasStatusElement => connectionStatus' # connectionStatus
        /\ chan = "failed" => chan' = "failed" ]_vars

\* C6: once connected again, a subscribe_shipment has been emitted in the
\* new connection epoch for every shipment the session was subscribed to.
C6_Resubscribed ==
    (chan = "open" /\ connected) =>
        \A id \in wanted : \E i \in 1..Len(outbox) :
            outbox[i] = Msg("subscribe_shipment", id)

\* C7: the rendered status of a row is the payload of the latest-stamped
\* shipment_update applied to it, whatever order the events arrived in.
C7_LastWriterWinsByTimestamp ==
    \A id \in rendered : maxTs[id] > 0 => badge[id].text = StatusAt(maxTs[id])

\* C8: while a status-update request for a shipment is in flight, no step
\* changes the rendered status of its row.
C8_InFlightGuard ==
    [][ \A id \in pending \cap pending' :
            (id \in rendered /\ id \in rendered') => badge'[id].text = badge[id].text ]_vars

\* C9: applying the same shipment_update a second time leaves the row's badge
\* (text and class) and the detail view's fields as the first application
\* left them.
C9_Idempotent ==
    [][ repeat' => /\ badge' = badge
                   /\ detailStatus' = detailStatus
                   /\ detailUpdated' = detailUpdated ]_vars

\* C9's case: an event for a rendered row whose detail view is open has just
\* been applied a second time.
C9_Witness ==
    /\ repeat
    /\ lastEv.shipment_id \in rendered
    /\ detailFor = lastEv.shipment_id
    /\ badge[lastEv.shipment_id].text = lastEv.current_status
    /\ detailStatus = lastEv.current_status

NumModals(elements) ==
    Cardinality({i \in 1..Len(elements) : elements[i].kind = "modal"})

NumNotifications(elements) ==
    Cardinality({i \in 1..Len(elements) : elements[i].kind \in {"toast", "alert"}})

\* C10: every emergency_alert received adds exactly one modal and exactly one
\* notification-queue entry to the page, subscribed to that shipment or not.
C10_AlertModalAndNotification ==
    [][ lastOp' = "emergency_alert" =>
            /\ NumModals(body') = NumModals(body) + 1
            /\ NumNotifications(body') = NumNotifications(body) + 1 ]_vars

Modals(elements) == SelectSeq(elements, IsModal)

\* C11: an emergency_alert adds a modal after the elements already on the
\* page and leaves every one of them, open modals included, in place;
\* acknowledging removes exactly the modal acknowledged.
C11_AlertsStack ==
    [][ /\ lastOp' = "emergency_alert" =>
              /\ Len(body') = Len(body) + 1
              /\ SubSeq(body', 1, Len(body)) = body
              /\ IsModal(body'[Len(body')])
        /\ lastOp' = "acknowledge" =>
              \E i \in 1..Len(body) : IsModal(body[i]) /\ body' = Remove(body, i)
      ]_vars

\* C11's case: one of two stacked modals has just been acknowledged, the
\* other is still open.
C11_Witness == lastOp = "acknowledge" /\ Len(Modals(body)) >= 1

\* C12: no step but an acknowledgement removes a modal or changes what it
\* shows: the modals on the page, each with its alert content, stay as they
\* are.
C12_ModalStaysUntilAcknowledged ==
    [][ lastOp' # "acknowledge" =>
            /\ Len(Modals(body')) >= Len(Modals(body))
            /\ SubSeq(Modals(body'), 1, Len(Modals(body))) = Modals(body) ]_vars

Serials(seq) == Range(seq) \ {0}

\* C13: when a 5000 ms timer comes due, the notification it was set for is
\* dismissed (if the operator has not dismissed it already) and no other is.
C13_OwnTimerDismisses ==
    [][ lastOp' = "alert_timer" =>
            Serials(noteIds') = Serials(noteIds) \ {Head(timerIds)} ]_vars

WithServerError == {"Failed to update status: " \o ServerError,
                    "Update failed: " \o ServerError}

GenericFallback == {"Failed to update status: Server error",
                    "Update failed: Server error"}

\* C15: a failed status-update request adds exactly one notification, with
\* the server's error message or, when the answer has none, a generic
\* fallback, and does not refresh the table.
C15_FailureNotifiesOnce ==
    [][ lastOp' \in {"failed, no error given", "failed, empty error",
                     "failed, error given"} =>
            /\ Len(body') = Len(body) + 1
            /\ SubSeq(body', 1, Len(body)) = body
            /\ body'[Len(body')].kind = "alert"
            /\ lastOp' = "failed, error given" =>
                   body'[Len(body')].msg \in WithServerError
            /\ lastOp' = "failed, no error given" =>
                   body'[Len(body')].msg \in GenericFallback
            /\ UNCHANGED <<allRows, rendered, badge, selectedShipments, preRefresh>>
      ]_vars

\* C16: whatever events failed before it, a well-formed event is applied in
\* full: a shipment_update gives its row's badge the event's status and
\* class, a location_update gives the shipment's location display the
\* event's coordinates.
C16_PerEventIsolation ==
    [][ LET X == lastEv'.shipment_id IN
        /\ ( /\ lastOp' \in {"ws_update", "sh_update"}
             /\ lastEv'.current_status # Undefined
             /\ X \in rendered ) =>
               badge'[X] = [text |-> lastEv'.current_status,
                            class |-> StatusClass(lastEv'.current_status)]
        /\ ( /\ lastOp' = "ws_location"
             /\ lastEv'.location.defined
             /\ locationDisplay[X].present ) =>
               locationDisplay'[X] =
                   [present |-> TRUE, updated |-> TRUE,
                    lat |-> toFixed4(lastEv'.location.lat),
                    lng |-> toFixed4(lastEv'.location.lng)]
      ]_vars

\* C17: once TFSTShipments' location_update listener has run for an event,
\* this.markers holds a marker for the event's shipment at the event's
\* location, and the markers of the other shipments are as they were.
C17_MarkerLastArrivalWins ==
    [][ ( lastOp' = "sh_location" /\ lastEv'.location.defined ) =>
            LET X == lastEv'.shipment_id IN
            /\ markers'[X] = [exists |-> TRUE, lat |-> lastEv'.location.lat,
                              lng |-> lastEv'.location.lng]
            /\ \A i \in Ids \ {X} : markers'[i] = markers[i] ]_vars

Pings(messages) ==
    Cardinality({i \in 1..Len(messages) : messages[i].type = "ping"})

\* C19: every time the 30 s interval fires, one ping without payload is
\* emitted if the client is connected and nothing is emitted if it is not;
\* no ping is emitted at any other moment.
C19_PingEveryTick ==
    [][ /\ (elapsed = pingInterval /\ elapsed' = 0) =>
              IF connected THEN outbox' = Append(outbox, Msg("ping", 0))
                           ELSE outbox' = outbox
        /\ Pings(outbox') > Pings(outbox) =>
              (elapsed = pingInterval /\ elapsed' = 0 /\ connected) ]_vars

\* C19's case: the interval has fired twice while connected (two pings are
\* out) and the next period has begun.
C19_Witness ==
    /\ connected
    /\ Pings(outbox) = 2
    /\ elapsed = 1

\* C20: where the page has a connection indicator, it shows 'connected'
\* exactly when this.connected is true.
C20_IndicatorMatchesFlag ==
    hasStatusElement => (connectionStatus = "connected" <=> connected)

\* C21: a call of subscribeToShipment, unsubscribeFromShipment or
\* requestShipmentStatus emits exactly one message, of its type and with
\* the given shipment id, when this.connected is true; when it is false the
\* call emits nothing and leaves the channel as it was; and no other step,
\* a later connect included, emits anything.
C21_GuardedEmit ==
    [][ /\ (lastCall' # NoCall /\ connected) =>
              /\ outbox' = Append(outbox, lastCall')
              /\ UNCHANGED <<connected, reconnectAttempts, connectionStatus,
                             chan, mgrAttempts>>
        /\ (lastCall' # NoCall /\ ~connected) =>
              UNCHANGED <<connected, reconnectAttempts, connectionStatus,
                          chan, mgrAttempts, outbox>>
        /\ lastCall' = NoCall => outbox' \in {outbox, <<>>} ]_vars

\* C21's case: the session was subscribed, lost its connection, a call made
\* then was dropped, and the channel is connected again with nothing emitted.
C21_Witness ==
    /\ dropped
    /\ wanted # {}
    /\ chan = "open" /\ connected
    /\ lastCall = NoCall
    /\ outbox = <<>>

\* C22: once a shipment_update the server emitted has reached every listening
\* component of the page, it has produced one notification and, where its
\* row is rendered, one highlight of that row.
C22_AppliedOnce ==
    (emitted.ev # NoEv /\ ~emitted.ws /\ ~emitted.sh) =>
        /\ emitted.notified = 1
        /\ emitted.ev.shipment_id \in rendered => emitted.highlighted = 1

\* C23: once every KPI request issued has been answered, the cards show the
\* snapshot of the latest-issued request among those that were answered
\* with one, whatever the order of the answers.
C23_LatestRequestWins ==
    (kpiInFlight = {} /\ kpiNewest > 0) => kpiCards = kpiNewest

\* C24: with the rendered rows fixed, after every step selectedShipments is
\* the set of values of the checked row checkboxes; ticking #selectAll adds
\* every rendered id, unticking it empties the set, and a click on a row's
\* checkbox adds or removes that row's id and no other.
C24_SelectionMatchesBoxes ==
    [][ /\ selectedShipments' = boxChecked'
        /\ (lastOp' = "selectAll" /\ selectAllChecked') =>
               selectedShipments' = selectedShipments \cup rendered
        /\ (lastOp' = "selectAll" /\ ~selectAllChecked') =>
               selectedShipments' = {}
        /\ lastOp' = "select" =>
               \E id \in rendered :
                   \/ id \notin selectedShipments
                        /\ selectedShipments' = selectedShipments \cup {id}
                   \/ id \in selectedShipments
                        /\ selectedShipments' = selectedShipments \ {id}
        /\ lastOp' \notin {"select", "selectAll"} =>
               selectedShipments' = selectedShipments ]_vars

\* C24's case: with one row ticked by hand the operator ticked #selectAll,
\* and both rows are ticked and selected.
C24_Witness ==
    /\ lastOp = "selectAll"
    /\ selectAllChecked
    /\ Cardinality(rendered) >= 2
    /\ selectedShipments = rendered
    /\ boxChecked = rendered

\* C25: after handleShipmentSelect or handleSelectAll the bulk-actions panel
\* is shown if the selection set is not empty and hidden if it is, and
\* #selectedCount shows the size of the set.
C25_BulkPanelFollowsSelection ==
    lastOp \in {"select", "selectAll"} =>
        /\ bulkActionsPanel = IF selectedShipments # {} THEN "shown" ELSE "hidden"
        /\ selectedCount = Cardinality(selectedShipments)

\* C25's case: the operator has just unticked the last ticked row; the
\* panel, shown until then, is hidden and the count reads 0.
C25_Witness ==
    /\ lastOp = "select"
    /\ rendered # {}
    /\ selectedShipments = {}
    /\ bulkActionsPanel = "hidden"
    /\ selectedCount = 0

\* C26: func is invoked only by the timer of the most recent call, wait
\* ticks or more after that call, with that call's args, and no timer is
\* pending once it has run; no other step invokes it; and once its timer
\* has run every burst of calls has had exactly one invocation.
C26_Debounce ==
    [][ /\ lastOp' = "func" =>
              /\ Len(timers) = 1 /\ timers[1].id = calls
              /\ burst.sinceCall >= wait
              /\ invoked' = [count |-> invoked.count + 1, args |-> burst.lastArgs]
              /\ timers' = <<>>
        /\ lastOp' # "func" => invoked' = invoked
        /\ invoked'.count = IF timers' = <<>> THEN burst'.bursts
                                              ELSE burst'.bursts - 1 ]_vars

\* C26's case: a burst of two calls or more and another burst have each
\* ended in one invocation, the last with the args "b" of the last call and
\* run later than wait.
C26_Witness ==
    /\ lastOp = "func"
    /\ calls >= 3
    /\ burst.bursts = 2
    /\ invoked = [count |-> 2, args |-> "b"]
    /\ burst.sinceCall > wait
    /\ timers = <<>>

====
